---- MODULE Spec2Model ----
(***************************************************************************)
(* A model of kubectl-topology-skew: the skew calculator (topology.rs,     *)
(* Region::new / Zone::new), the result set of tables, the cluster helpers *)
(* of kube.rs (CachedNodeApi, resources, pods_by, nodes_by,                *)
(* only_pod_running, only_node_running, topology_values,                   *)
(* spreading_status), the commands all(), pod(), node() and deployment(),  *)
(* and the argument parsing of main().                                     *)
(***************************************************************************)
EXTENDS Integers, Sequences, FiniteSets, TLC

VARIABLES
    \* ---- skew calculator, exercised on its own (Region::new) ----
    phase,            \* "input" | "computed" | "recomputed"
    scheduled_zone,   \* Vec<String>: the observed values V
    all_zones,        \* HashSet<String>: the domain set D
    zones,            \* BTreeSet<Zone> returned by Region::new, as its ordered sequence
    scheduled_again,  \* the same observed values in the order of the second run
    zones_again,      \* the rows of the second run
    \* ---- one invocation of a command ----
    cmd,              \* "all" | "pod" | "node" | "deployment" (none: a helper on its own)
    pc,               \* the await the command is at, "done" or "error"
    labels_set,       \* BTreeMap<String, String>: workload identity -> selector
    cached,           \* CachedNodeApi.cached: None before try_from, then name -> Node
    remaining,        \* the keys of labels_set the for loop has not visited yet
    fetched,          \* the responses to the list calls of the current pods_by, in selector order
    pods,             \* pods_by's result for the current entry
    nodes,            \* nodes_by's result for the current entry
    tables,           \* TopologyTables: the BTreeSet of tables, as its ordered sequence
    requests,         \* the cluster requests issued so far, in order
    driver_from,      \* the index in requests of the first request of the driver part (0: not started)
    error,            \* the error the command returned, or None
    opts,             \* the options of the command: name, selector and node label filter
    \* ---- a helper exercised on its own ----
    given,            \* the argument handed to the helper
    result            \* what the helper returned

skewVars == <<phase, scheduled_zone, all_zones, zones, scheduled_again, zones_again>>
allVars == <<cmd, pc, labels_set, cached, remaining, fetched, pods, nodes,
             tables, requests, driver_from, error>>
vars == <<phase, scheduled_zone, all_zones, zones, scheduled_again, zones_again,
          cmd, pc, labels_set, cached, remaining, fetched, pods, nodes,
          tables, requests, driver_from, error, opts, given, result>>
helperVars == <<opts, given, result>>

\* Option<T>: None, Some(x)
None == <<>>
Some(x) == <<x>>
IsSome(o) == Len(o) = 1
Unwrap(o) == o[1]
\* Option::unwrap_or
UnwrapOr(o, d) == IF IsSome(o) THEN Unwrap(o) ELSE d

\* Result<T>: Ok(v), Err(e)
Ok(v) == [ok |-> TRUE, val |-> v, err |-> ""]
Err(e) == [ok |-> FALSE, val |-> <<>>, err |-> e]

EmptyMap == [k \in {} |-> ""]

\* Options::default(): no name, no selector
NoOpts == [name |-> None, selector |-> None, labels |-> EmptyMap]

\* ------------------------------------------------------------------------
\* Bounds
\* ------------------------------------------------------------------------
MaxLen == 4          \* longest list of observed values handed to Region::new
MaxPods == 2         \* longest pod list a list call returns
MaxSelectors == 2    \* most selectors handed to one pods_by call
MaxEntries == 2      \* most workloads the listings of all() return together
MaxTables == 3       \* most tables collected into one result set on its own
MaxArgs == 2         \* most -l values on one command line

\* ------------------------------------------------------------------------
\* Strings and their order
\* ------------------------------------------------------------------------
\* The topology values in use, in ascending String order.
KeyOrder == <<"z-a", "z-b", "z-c">>
Keys == {KeyOrder[i] : i \in DOMAIN KeyOrder}

Range(s) == {s[i] : i \in DOMAIN s}

\* cmp of String (derived Ord of Zone compares name first)
StrRank(k) == CHOOSE i \in DOMAIN KeyOrder : KeyOrder[i] = k
StrLess(a, b) == StrRank(a) < StrRank(b)

\* All sequences over S of length at most n.
SeqsUpTo(S, n) == UNION {[1..k -> S] : k \in 0..n}

\* All orders in which the elements of S can be iterated.
Perms(S) ==
    {p \in [1..Cardinality(S) -> S] : \A i, j \in 1..Cardinality(S) : i # j => p[i] # p[j]}

\* All rearrangements of the sequence s.
Rearrangements(s) ==
    {[i \in DOMAIN s |-> s[p[i]]] : p \in Perms(DOMAIN s)}

\* ------------------------------------------------------------------------
\* Skew calculator: Region::new and Zone::new (topology.rs)
\* ------------------------------------------------------------------------
\* Variant: the domain set seeds nothing.
SeedMap_Nothing(D) == [k \in {} |-> 0]

\* all_zones.iter().map(|name| (name.clone(), 0usize)).collect::<HashMap>()
SeedMap(D) == [k \in D |-> 0]

\* Variant: every observed value counts once, however often it occurs.
Counts_Distinct(V) == [k \in Range(V) |-> 1]

\* scheduled_zone.into_iter().counts()
Counts(V) == [k \in Range(V) |-> Cardinality({i \in DOMAIN V : V[i] = k})]

\* Variant: only the keys already in m1 are overlaid.
Extend_KnownOnly(m1, m2) ==
    [k \in DOMAIN m1 |-> IF k \in DOMAIN m2 THEN m2[k] ELSE m1[k]]

\* HashMap::extend: every entry of m2 is inserted, replacing the value of a key already there
Extend(m1, m2) ==
    [k \in (DOMAIN m1) \cup (DOMAIN m2) |-> IF k \in DOMAIN m2 THEN m2[k] ELSE m1[k]]

\* count_map after "merge count map"
CountMap(V, D) == Extend(SeedMap(D), Counts(V))

\* Variant: the minimum is not looked up, the default 0 stands for it.
MinCount_Zero(m) == 0

\* Variant: the largest count is taken.
MinCount_Max(m) ==
    IF DOMAIN m = {} THEN 0
    ELSE CHOOSE c \in {m[k] : k \in DOMAIN m} : \A k \in DOMAIN m : c >= m[k]

\* Variant: the minimum is taken over the domains that have an instance.
MinCount_Scheduled(m) ==
    LET used == {k \in DOMAIN m : m[k] > 0}
    IN  IF used = {} THEN 0
        ELSE CHOOSE c \in {m[k] : k \in used} : \A k \in used : c <= m[k]

\* count_map.values().min().copied().unwrap_or(0)
MinCount(m) ==
    IF DOMAIN m = {} THEN 0
    ELSE CHOOSE c \in {m[k] : k \in DOMAIN m} : \A k \in DOMAIN m : c <= m[k]

\* Zone::new(zone_name, count as u32, min_count_in_region as u32).  The counts of
\* the model are far below 2^32, so the casts keep them; a negative skew stands
\* for the u32 subtraction underflowing.
ZoneNew(name, count, min_count_in_region) ==
    [name |-> name,
     count |-> count,
     skew |-> count - min_count_in_region]

\* derived Ord of Zone: name, then count, then skew
ZoneLess(a, b) ==
    \/ StrLess(a.name, b.name)
    \/ a.name = b.name /\ a.count < b.count
    \/ a.name = b.name /\ a.count = b.count /\ a.skew < b.skew

\* Variant: a Vec, the element is pushed at the end.
BTreeInsert_Push(set, z) == Append(set, z)

\* BTreeSet::insert: the set stays ordered, an equal element is not inserted twice
BTreeInsert(set, z) ==
    IF \E i \in DOMAIN set : set[i] = z THEN set
    ELSE LET below == SelectSeq(set, LAMBDA e : ZoneLess(e, z))
             above == SelectSeq(set, LAMBDA e : ~ZoneLess(e, z))
         IN  below \o <<z>> \o above

\* count_map.into_iter().map(Zone::new).collect::<BTreeSet<_>>(), the HashMap being
\* iterated in the order `order`
RECURSIVE CollectZones(_, _, _)
CollectZones(m, min, order) ==
    IF order = <<>> THEN <<>>
    ELSE LET n == Len(order)
             k == order[n]
         IN  BTreeInsert(CollectZones(m, min, SubSeq(order, 1, n - 1)), ZoneNew(k, m[k], min))

\* Region::new: the zones of the region
RegionNew(V, D, order) ==
    LET count_map == CountMap(V, D)
        min_count_in_region == MinCount(count_map)
    IN  CollectZones(count_map, min_count_in_region, order)

\* ------------------------------------------------------------------------
\* Pods and nodes (k8s_openapi Pod, Node) and the helpers of kube.rs
\* ------------------------------------------------------------------------
\* opts.topology_key
TopologyKey == "topology.kubernetes.io/zone"

\* Pod.status: absent, without phase, or with a phase
PodStatuses ==
    {None, Some([phase |-> None]), Some([phase |-> Some("Pending")]), Some([phase |-> Some("Running")])}

\* Pod.spec: absent, without node name, or bound to a node
PodSpecs(names) ==
    {None, Some([node_name |-> None])} \cup {Some([node_name |-> Some(n)]) : n \in names}

Condition(t, st) == [type |-> t, status |-> st]

\* Node.status: absent, without conditions, or with conditions
NodeStatuses ==
    {None,
     Some([conditions |-> None]),
     Some([conditions |-> Some(<<Condition("MemoryPressure", "True")>>)]),
     Some([conditions |-> Some(<<Condition("MemoryPressure", "False"), Condition("Ready", "False")>>)]),
     Some([conditions |-> Some(<<Condition("MemoryPressure", "False"), Condition("Ready", "True")>>)])}

\* Node.metadata.labels, as far as the topology key goes
NodeLabels == {EmptyMap} \cup {[k \in {TopologyKey} |-> z] : z \in {"z-a", "z-b"}}

\* Iterator::flatten over a Vec<Vec<_>>; over a Vec<Option<_>> it keeps the Some
\* values in order, which is what filter_map returns
RECURSIVE Flatten(_)
Flatten(seqs) == IF seqs = <<>> THEN <<>> ELSE Head(seqs) \o Flatten(Tail(seqs))

\* Variant: a pod without phase passes.
PodIsRunning_Lenient(pod) ==
    IF IsSome(pod.status)
    THEN LET ph == Unwrap(pod.status).phase
         IN  IF IsSome(ph) THEN Unwrap(ph) = "Running" ELSE TRUE
    ELSE FALSE

\* only_pod_running: the closure only_running
PodIsRunning(pod) ==
    LET is_running(status) ==
            IF IsSome(status.phase) THEN Some(Unwrap(status.phase) = "Running") ELSE None
        and_then == IF IsSome(pod.status) THEN is_running(Unwrap(pod.status)) ELSE None
    IN  UnwrapOr(and_then, FALSE)

\* only_pod_running
OnlyPodRunning(ps) == SelectSeq(ps, PodIsRunning)

\* only_node_running: the closure only_running
NodeIsRunning(node) ==
    LET any_ready(conditions) ==
            \E i \in DOMAIN conditions :
                conditions[i].type = "Ready" /\ conditions[i].status = "True"
        is_ready(status) ==
            IF IsSome(status.conditions) THEN Some(any_ready(Unwrap(status.conditions))) ELSE None
        and_then == IF IsSome(node.status) THEN is_ready(Unwrap(node.status)) ELSE None
    IN  IsSome(and_then)

\* only_node_running
OnlyNodeRunning(ns) == SelectSeq(ns, NodeIsRunning)

\* topology_values
TopologyValues(topology_key, ns) ==
    LET find_topology_value(node) ==
            IF topology_key \in DOMAIN node.labels THEN Some(node.labels[topology_key]) ELSE None
    IN  Flatten([i \in DOMAIN ns |-> find_topology_value(ns[i])])

\* Variant: a node name is looked up once, however many pods are bound to it.
NodeNames_Distinct(ps) ==
    LET node_name(pod) == IF IsSome(pod.spec) THEN Unwrap(pod.spec).node_name ELSE None
        all_names == Flatten([i \in DOMAIN ps |-> node_name(ps[i])])
        first(i) == \A j \in 1..(i - 1) : all_names[j] # all_names[i]
    IN  Flatten([i \in DOMAIN all_names |-> IF first(i) THEN <<all_names[i]>> ELSE <<>>])

\* node_names
NodeNames(ps) ==
    LET node_name(pod) == IF IsSome(pod.spec) THEN Unwrap(pod.spec).node_name ELSE None
    IN  Flatten([i \in DOMAIN ps |-> node_name(ps[i])])

\* Variant: the node is read from the cluster again, where it has moved to z-c.
CachedGet_Refetch(cache, node_name) ==
    IF node_name \in DOMAIN cache
    THEN Some([cache[node_name] EXCEPT !.labels = [k \in {TopologyKey} |-> "z-c"]])
    ELSE None

\* CachedNodeApi::get
CachedGet(cache, node_name) ==
    IF node_name \in DOMAIN cache THEN Some(cache[node_name]) ELSE None

\* Variant: every lookup lists the nodes again.
LookupRequests_Relist(names) ==
    [i \in DOMAIN names |-> [api |-> "nodes", name |-> None, labels |-> ""]]

\* The cluster requests a batch of CachedNodeApi lookups issues: none, the lookups
\* read self.cached only
LookupRequests(names) == <<>>

\* Variant: only the nodes that are ready count.
Domains_ReadyOnly(cache, topology_key) ==
    {cache[n].labels[topology_key] :
        n \in {m \in DOMAIN cache : /\ topology_key \in DOMAIN cache[m].labels
                                    /\ NodeIsRunning(cache[m])}}

\* CachedNodeApi::domains
Domains(cache, topology_key) ==
    {cache[n].labels[topology_key] : n \in {m \in DOMAIN cache : topology_key \in DOMAIN cache[m].labels}}

\* Variant: a node passes when any entry of the filter is among its labels.
CachedList_Any(cache, labels, order) ==
    LET find_by_label(node) ==
            IF \E k \in DOMAIN labels :
                   \E l \in DOMAIN node.labels : k = l /\ labels[k] = node.labels[l]
            THEN Some(node) ELSE None
    IN  Flatten([i \in DOMAIN order |-> find_by_label(cache[order[i]])])

\* CachedNodeApi::list(labels); order is the iteration order of the HashMap
CachedList(cache, labels, order) ==
    LET find_by_label(node) ==
            IF \A k \in DOMAIN labels :
                   \E l \in DOMAIN node.labels : k = l /\ labels[k] = node.labels[l]
            THEN Some(node) ELSE None
    IN  Flatten([i \in DOMAIN order |-> find_by_label(cache[order[i]])])

\* Variant: a lookup takes the node out of the map.
CacheAfterGet_Take(cache, node_name) == [n \in DOMAIN cache \ {node_name} |-> cache[n]]

\* self.cached after CachedNodeApi::get(node_name): the lookup holds the read guard
\* and clones the node
CacheAfterGet(cache, node_name) == cache

\* self.cached after a batch of lookups made in the given order
RECURSIVE CacheAfterLookups(_, _)
CacheAfterLookups(cache, names) ==
    IF names = <<>> THEN cache
    ELSE CacheAfterLookups(CacheAfterGet(cache, Head(names)), Tail(names))

\* self.cached after CachedNodeApi::domains or CachedNodeApi::list: both iterate
\* under the read guard
CacheAfterScan(cache) == cache

\* Variant: one lookup without node empties the batch.
NodesBy_AllOrNothing(ps, cache) ==
    LET node_names == NodeNames(ps)
        looked_up == [i \in DOMAIN node_names |-> CachedGet(cache, node_names[i])]
    IN  IF \E i \in DOMAIN looked_up : ~IsSome(looked_up[i])
        THEN <<>>
        ELSE OnlyNodeRunning(Flatten(looked_up))

\* nodes_by
NodesBy(ps, cache) ==
    LET node_names == NodeNames(ps)
        found == Flatten([i \in DOMAIN node_names |-> CachedGet(cache, node_names[i])])
    IN  OnlyNodeRunning(found)

\* Variant: the instances of the calls that succeeded are returned.
PodsBy_Partial(responses) ==
    LET succeeded == SelectSeq(responses, LAMBDA r : r.ok)
    IN  IF succeeded = <<>> /\ responses # <<>>
        THEN Err(responses[1].err)
        ELSE Ok(OnlyPodRunning(Flatten([i \in DOMAIN succeeded |-> succeeded[i].val])))

\* pods_by, given the responses of the list calls in selector order
PodsBy(responses) ==
    LET failed == {i \in DOMAIN responses : ~responses[i].ok}
    IN  IF failed # {}
        THEN Err(responses[CHOOSE i \in failed : \A j \in failed : i <= j].err)
        ELSE Ok(OnlyPodRunning(Flatten([i \in DOMAIN responses |-> responses[i].val])))

\* ------------------------------------------------------------------------
\* The skew calculator on its own
\* ------------------------------------------------------------------------
HelperIdle ==
    /\ opts = NoOpts
    /\ given = <<>>
    /\ result = <<>>

AllIdle ==
    /\ cmd = "none"
    /\ pc = "idle"
    /\ labels_set = EmptyMap
    /\ cached = None
    /\ remaining = {}
    /\ fetched = <<>>
    /\ pods = <<>>
    /\ nodes = <<>>
    /\ tables = <<>>
    /\ requests = <<>>
    /\ driver_from = 0
    /\ error = None

SkewInit ==
    /\ phase = "input"
    /\ scheduled_zone \in SeqsUpTo(Keys, MaxLen)
    /\ all_zones \in SUBSET Keys
    /\ zones = <<>>
    /\ scheduled_again = <<>>
    /\ zones_again = <<>>
    /\ AllIdle
    /\ HelperIdle

\* Region::new(name, scheduled_zone, &all_zones)
Calc ==
    /\ phase = "input"
    /\ \E order \in Perms(DOMAIN CountMap(scheduled_zone, all_zones)) :
           zones' = RegionNew(scheduled_zone, all_zones, order)
    /\ phase' = "computed"
    /\ UNCHANGED <<scheduled_zone, all_zones, scheduled_again, zones_again>>
    /\ UNCHANGED <<allVars, helperVars>>

\* Region::new on the same values in another order
Recalc ==
    /\ phase = "computed"
    /\ \E V2 \in Rearrangements(scheduled_zone) :
         \E order \in Perms(DOMAIN CountMap(V2, all_zones)) :
           /\ scheduled_again' = V2
           /\ zones_again' = RegionNew(V2, all_zones, order)
    /\ phase' = "recomputed"
    /\ UNCHANGED <<scheduled_zone, all_zones, zones>>
    /\ UNCHANGED <<allVars, helperVars>>

SkewNext == Calc \/ Recalc

SpecSkew == SkewInit /\ [][SkewNext]_vars

\* ------------------------------------------------------------------------
\* Properties of the skew calculator (checked under SpecSkew)
\* ------------------------------------------------------------------------
\* The number of occurrences of k in the observed values.
Occurrences(k) == Cardinality({i \in DOMAIN scheduled_zone : scheduled_zone[i] = k})

\* The keys of the merged mapping: the domain set and the observed values.
MergedKeys == all_zones \cup Range(scheduled_zone)

\* The minimum of the merged mapping (domains at 0, overlaid with the occurrences), 0 if empty.
GlobalMinimum ==
    IF MergedKeys = {} THEN 0
    ELSE CHOOSE c \in {Occurrences(k) : k \in MergedKeys} :
             \A k \in MergedKeys : c <= Occurrences(k)

Rows == Range(zones)

\* C1: in every row globalMinimum <= count and skew = count - globalMinimum >= 0,
\* globalMinimum being the minimum count of the merged mapping (0 when it is empty).
C1_SkewFromGlobalMinimum ==
    phase # "input" =>
        \A r \in Rows :
            /\ GlobalMinimum <= r.count
            /\ r.skew = r.count - GlobalMinimum
            /\ r.skew >= 0

\* A run in which the global minimum is positive and some row is above it.
C1_Witness ==
    /\ phase = "computed"
    /\ GlobalMinimum > 0
    /\ \E r \in Rows : r.skew > 0

\* C2: when some member of D does not occur in V, the global minimum is 0 and
\* every row's skew equals its count.
C2_UnmatchedDomainCountsZero ==
    (phase # "input" /\ all_zones \ Range(scheduled_zone) # {}) =>
        /\ \E r \in Rows : r.count = 0 /\ r.skew = 0
        /\ \A r \in Rows : r.skew = r.count

\* Scenario D: V = [z-a], D = {z-a, z-b, z-c}.
C2_Witness ==
    /\ phase = "computed"
    /\ scheduled_zone = <<"z-a">>
    /\ all_zones = {"z-a", "z-b", "z-c"}
    /\ zones = << [name |-> "z-a", count |-> 1, skew |-> 1],
                  [name |-> "z-b", count |-> 0, skew |-> 0],
                  [name |-> "z-c", count |-> 0, skew |-> 0] >>

\* C3: every member of D is the key of a row, with count 0 when it does not occur in V.
C3_Completeness ==
    phase # "input" =>
        \A d \in all_zones :
            /\ \E r \in Rows : r.name = d
            /\ d \notin Range(scheduled_zone) => \A r \in Rows : r.name = d => r.count = 0

\* A run with instances in which a domain without instance has its row.
C3_Witness ==
    /\ phase = "computed"
    /\ scheduled_zone # <<>>
    /\ \E d \in all_zones \ Range(scheduled_zone) : \E r \in Rows : r.name = d /\ r.count = 0

\* C4: the count of a row is the number of occurrences of its key in V, and the
\* row keys are exactly D united with the values of V.
C4_CountsAndKeys ==
    phase # "input" =>
        /\ \A r \in Rows : r.count = Occurrences(r.name)
        /\ {r.name : r \in Rows} = MergedKeys

\* A run in which a value occurs several times next to a value that occurs once.
C4_Witness ==
    /\ phase = "computed"
    /\ \E r \in Rows : r.count >= 2
    /\ \E r \in Rows : r.count = 1

\* C5: a value of V that is not in D has a row with its occurrence count, and
\* the global minimum is not above that count.
C5_Extension ==
    phase # "input" =>
        \A v \in Range(scheduled_zone) \ all_zones :
            /\ \E r \in Rows : r.name = v /\ r.count = Occurrences(v)
            /\ \A r \in Rows : r.count - r.skew <= Occurrences(v)

\* A run in which the extension row alone holds the minimum.
C5_Witness ==
    /\ phase = "computed"
    /\ all_zones # {}
    /\ \E v \in Range(scheduled_zone) \ all_zones :
           \E r \in Rows :
               /\ r.name = v /\ r.skew = 0 /\ r.count > 0
               /\ \A q \in Rows : q.name # v => q.skew > 0

\* C6: a second run on any rearrangement of V, with any iteration order of the
\* maps, returns the same rows in the same order, strictly ascending by key.
C6_Deterministic ==
    /\ phase # "input" =>
           \A i, j \in DOMAIN zones : i < j => StrLess(zones[i].name, zones[j].name)
    /\ phase = "recomputed" => zones_again = zones

\* A second run on a different arrangement of the values, with several rows.
C6_Witness ==
    /\ phase = "recomputed"
    /\ scheduled_again # scheduled_zone
    /\ Len(zones) >= 3
    /\ zones_again = zones


\* ------------------------------------------------------------------------
\* pods_by on its own
\* ------------------------------------------------------------------------
SkewIdle ==
    /\ phase = "idle"
    /\ scheduled_zone = <<>>
    /\ all_zones = {}
    /\ zones = <<>>
    /\ scheduled_again = <<>>
    /\ zones_again = <<>>

BoundTo(n) == Some([node_name |-> Some(n)])

\* The pods a list call of the fetcher may return.
FetchPods == {[status |-> st, spec |-> BoundTo("n1")] : st \in PodStatuses}

\* The outcomes of one list call: api.list(&params).await.context("Fail to get pods")
FetchResponses == {Err("Fail to get pods")} \cup {Ok(l) : l \in SeqsUpTo(FetchPods, MaxPods)}

FetchInit ==
    /\ cmd = "none"
    /\ pc = "pods_by"
    /\ fetched \in SeqsUpTo(FetchResponses, MaxSelectors)
    /\ labels_set = EmptyMap
    /\ cached = None
    /\ remaining = {}
    /\ pods = <<>>
    /\ nodes = <<>>
    /\ tables = <<>>
    /\ requests = <<>>
    /\ driver_from = 0
    /\ error = None
    /\ SkewIdle
    /\ HelperIdle

\* pods_by(labels_set, namespace, cli) once every list call has answered
ApplyPodsBy ==
    /\ cmd = "none"
    /\ pc = "pods_by"
    /\ LET r == PodsBy(fetched)
       IN  IF r.ok
           THEN pods' = r.val /\ pc' = "fetched" /\ error' = error
           ELSE pods' = pods /\ pc' = "error" /\ error' = Some(r.err)
    /\ UNCHANGED <<cmd, labels_set, cached, remaining, fetched, nodes, tables, requests,
                   driver_from>>
    /\ UNCHANGED <<skewVars, helperVars>>

FetchNext == ApplyPodsBy

SpecFetch == FetchInit /\ [][FetchNext]_vars

\* ------------------------------------------------------------------------
\* pods_by, its list calls completing in any order (future::join_all)
\* ------------------------------------------------------------------------
\* The pods a list call of the batch may return.
JoinPods ==
    {[status |-> Some([phase |-> Some(ph)]), spec |-> BoundTo("n1")] : ph \in {"Running", "Pending"}}

\* The error of a list call: the error of the client under the context of pods_by.
ListError(source) == [context |-> "Fail to get pods", source |-> source]

\* The outcomes of one list call of the batch.
JoinResponses ==
    {Err(ListError(e)) : e \in {"Forbidden", "Timeout"}}
        \cup {Ok(l) : l \in SeqsUpTo(JoinPods, MaxPods)}

\* The futures are built, none has completed: given holds what every call will
\* answer, fetched the output slots of join_all, result the order of completion.
JoinInit ==
    /\ cmd = "join"
    /\ pc = "join_all"
    /\ given \in SeqsUpTo(JoinResponses, MaxSelectors)
    /\ fetched = [i \in DOMAIN given |-> None]
    /\ remaining = DOMAIN given
    /\ result = <<>>
    /\ opts = NoOpts
    /\ labels_set = EmptyMap
    /\ cached = None
    /\ pods = <<>>
    /\ nodes = <<>>
    /\ tables = <<>>
    /\ requests = <<>>
    /\ driver_from = 0
    /\ error = None
    /\ SkewIdle

\* One of the pending list calls completes; join_all keeps its output in the slot
\* of its selector.
Complete ==
    /\ cmd = "join"
    /\ pc = "join_all"
    /\ \E i \in remaining :
         /\ fetched' = [fetched EXCEPT ![i] = Some(given[i])]
         /\ remaining' = remaining \ {i}
         /\ result' = Append(result, i)
    /\ UNCHANGED <<cmd, pc, labels_set, cached, pods, nodes, tables, requests, driver_from,
                   error, opts, given>>
    /\ UNCHANGED skewVars

\* Variant: the join ends with the first call that fails (try_join_all).
JoinAll_Eager ==
    /\ cmd = "join"
    /\ pc = "join_all"
    /\ \/ /\ remaining = {}
          /\ LET r == PodsBy([i \in DOMAIN fetched |-> Unwrap(fetched[i])])
             IN  IF r.ok
                 THEN pods' = r.val /\ pc' = "fetched" /\ error' = error
                 ELSE pods' = pods /\ pc' = "error" /\ error' = Some(r.err)
       \/ /\ result # <<>>
          /\ ~given[result[Len(result)]].ok
          /\ pods' = pods /\ pc' = "error" /\ error' = Some(given[result[Len(result)]].err)
    /\ UNCHANGED <<cmd, labels_set, cached, remaining, fetched, nodes, tables, requests,
                   driver_from>>
    /\ UNCHANGED <<skewVars, helperVars>>

\* join_all(pods_fut).await is ready once every future is; then collect, flatten,
\* only_pod_running
JoinAll ==
    /\ cmd = "join"
    /\ pc = "join_all"
    /\ remaining = {}
    /\ LET r == PodsBy([i \in DOMAIN fetched |-> Unwrap(fetched[i])])
       IN  IF r.ok
           THEN pods' = r.val /\ pc' = "fetched" /\ error' = error
           ELSE pods' = pods /\ pc' = "error" /\ error' = Some(r.err)
    /\ UNCHANGED <<cmd, labels_set, cached, remaining, fetched, nodes, tables, requests,
                   driver_from>>
    /\ UNCHANGED <<skewVars, helperVars>>

JoinNext == Complete \/ JoinAll

SpecJoin == JoinInit /\ [][JoinNext]_vars

\* ------------------------------------------------------------------------
\* nodes_by on its own
\* ------------------------------------------------------------------------
RunningOn(sp) == [status |-> Some([phase |-> Some("Running")]), spec |-> sp]

\* The running pods handed to the resolver: unbound, or bound to n1, n2 or n3.
ResolvePods == {RunningOn(sp) : sp \in PodSpecs({"n1", "n2", "n3"})}

ZoneLabel(z) == [k \in {TopologyKey} |-> z]

\* The snapshots of the resolver: n1 and n2 in any status; n3 is not in the cluster.
ResolveCaches ==
    {[n \in {"n1", "n2"} |->
         [name |-> n, labels |-> ZoneLabel(IF n = "n1" THEN "z-a" ELSE "z-b"), status |-> st[n]]] :
             st \in [{"n1", "n2"} -> NodeStatuses]}

ResolveInit ==
    /\ cmd = "none"
    /\ pc = "nodes_by"
    /\ pods \in SeqsUpTo(ResolvePods, MaxPods)
    /\ \E cache \in ResolveCaches : cached = Some(cache)
    /\ fetched = <<>>
    /\ labels_set = EmptyMap
    /\ remaining = {}
    /\ nodes = <<>>
    /\ tables = <<>>
    /\ requests = <<>>
    /\ driver_from = 0
    /\ error = None
    /\ SkewIdle
    /\ HelperIdle

\* nodes_by(&pods, &node_api)
ApplyNodesBy ==
    /\ cmd = "none"
    /\ pc = "nodes_by"
    /\ nodes' = NodesBy(pods, Unwrap(cached))
    /\ \E lookups \in Rearrangements(NodeNames(pods)) :
           cached' = Some(CacheAfterLookups(Unwrap(cached), lookups))
    /\ requests' = requests \o LookupRequests(NodeNames(pods))
    /\ pc' = "resolved"
    /\ UNCHANGED <<cmd, labels_set, remaining, fetched, pods, tables, driver_from, error>>
    /\ UNCHANGED <<skewVars, helperVars>>

ResolveNext == ApplyNodesBy

SpecResolve == ResolveInit /\ [][ResolveNext]_vars

\* ------------------------------------------------------------------------
\* The node directory on its own: get, domains and list over a snapshot
\* ------------------------------------------------------------------------
\* Node.metadata.labels over the topology key and a second label
DirectoryLabels ==
    {EmptyMap, ZoneLabel("z-a"), ZoneLabel("z-b"), [k \in {"pool"} |-> "p"],
     [k \in {TopologyKey, "pool"} |-> IF k = "pool" THEN "p" ELSE "z-a"],
     [k \in {TopologyKey, "pool"} |-> IF k = "pool" THEN "q" ELSE "z-a"]}

\* Node.status of a ready node and of a node without status
DirectoryStatuses == {None, Some([conditions |-> Some(<<Condition("Ready", "True")>>)])}

\* The snapshots: any of n1 and n2, with any labels and status; never n3.
DirectoryCaches ==
    UNION {{[n \in N |-> [name |-> n, labels |-> l[n], status |-> st[n]]] :
               l \in [N -> DirectoryLabels], st \in [N -> DirectoryStatuses]} :
           N \in SUBSET {"n1", "n2"}}

\* The calls made on the directory: get(name), domains(key), list(labels)
DirectoryCalls ==
    {[op |-> "get", name |-> n, key |-> "", labels |-> EmptyMap] : n \in {"n1", "n2", "n3"}}
        \cup {[op |-> "domains", name |-> "", key |-> k, labels |-> EmptyMap] :
                  k \in {TopologyKey, "pool", "rack"}}
        \cup {[op |-> "list", name |-> "", key |-> "", labels |-> f] : f \in DirectoryLabels}

DirectoryInit ==
    /\ cmd = "none"
    /\ pc = "call"
    /\ \E cache \in DirectoryCaches : cached = Some(cache)
    /\ given \in DirectoryCalls
    /\ result = <<>>
    /\ opts = NoOpts
    /\ labels_set = EmptyMap
    /\ remaining = {}
    /\ fetched = <<>>
    /\ pods = <<>>
    /\ nodes = <<>>
    /\ tables = <<>>
    /\ requests = <<>>
    /\ driver_from = 0
    /\ error = None
    /\ SkewIdle

\* CachedNodeApi::get(node_name)
ApplyGet ==
    /\ cmd = "none"
    /\ pc = "call"
    /\ given.op = "get"
    /\ result' = CachedGet(Unwrap(cached), given.name)
    /\ cached' = Some(CacheAfterGet(Unwrap(cached), given.name))
    /\ pc' = "answered"
    /\ UNCHANGED <<cmd, labels_set, remaining, fetched, pods, nodes, tables, requests,
                   driver_from, error, opts, given>>
    /\ UNCHANGED skewVars

\* CachedNodeApi::domains(topology_key)
ApplyDomains ==
    /\ cmd = "none"
    /\ pc = "call"
    /\ given.op = "domains"
    /\ result' = Domains(Unwrap(cached), given.key)
    /\ cached' = Some(CacheAfterScan(Unwrap(cached)))
    /\ pc' = "answered"
    /\ UNCHANGED <<cmd, labels_set, remaining, fetched, pods, nodes, tables, requests,
                   driver_from, error, opts, given>>
    /\ UNCHANGED skewVars

\* CachedNodeApi::list(labels)
ApplyList ==
    /\ cmd = "none"
    /\ pc = "call"
    /\ given.op = "list"
    /\ \E iteration \in Perms(DOMAIN Unwrap(cached)) :
           result' = CachedList(Unwrap(cached), given.labels, iteration)
    /\ cached' = Some(CacheAfterScan(Unwrap(cached)))
    /\ pc' = "answered"
    /\ UNCHANGED <<cmd, labels_set, remaining, fetched, pods, nodes, tables, requests,
                   driver_from, error, opts, given>>
    /\ UNCHANGED skewVars

DirectoryNext == ApplyGet \/ ApplyDomains \/ ApplyList

SpecDirectory == DirectoryInit /\ [][DirectoryNext]_vars

\* ------------------------------------------------------------------------
\* Result tables (TopologyTable, TopologyTables)
\* ------------------------------------------------------------------------
\* The workload identity strings in use ("" is the key of a direct pod query), in
\* ascending String order.
NameOrder ==
    <<"", "apps/v1/daemonset/agent", "apps/v1/daemonset/log", "apps/v1/deployment/api",
      "apps/v1/deployment/web", "apps/v1/statefulset/db", "batch/v1/job/batch",
      "batch/v1/job/cron">>

\* cmp of String, on the identity strings
NameRank(n) == CHOOSE i \in DOMAIN NameOrder : NameOrder[i] = n
NameLess(a, b) == NameRank(a) < NameRank(b)

\* cmp of Option<String>: None is below every Some
HeaderLess(a, b) ==
    \/ ~IsSome(a) /\ IsSome(b)
    \/ IsSome(a) /\ IsSome(b) /\ NameLess(Unwrap(a), Unwrap(b))

\* cmp of two BTreeSet<Zone>: lexicographic over the ordered elements
RECURSIVE ZonesLess(_, _)
ZonesLess(a, b) ==
    IF b = <<>> THEN FALSE
    ELSE IF a = <<>> THEN TRUE
    ELSE IF ZoneLess(Head(a), Head(b)) THEN TRUE
    ELSE IF ZoneLess(Head(b), Head(a)) THEN FALSE
    ELSE ZonesLess(Tail(a), Tail(b))

\* derived Ord of a table: the header, then the rows
TableLess(a, b) ==
    \/ HeaderLess(a.header, b.header)
    \/ a.header = b.header /\ ZonesLess(a.topologies, b.topologies)

\* TopologyTable::create(topology_values, &domains, header): the skew calculator's
\* rows under the header
TopologyTableCreate(topology_values, domains, header, order) ==
    [header |-> header, topologies |-> RegionNew(topology_values, domains, order)]

\* Variant: the set keeps the tables in the order they arrive.
TablesInsert_Push(set, t) ==
    IF \E i \in DOMAIN set : set[i] = t THEN set ELSE Append(set, t)

\* Variant: a table whose header is in the set already is a duplicate.
TablesInsert_ByHeader(set, t) ==
    IF \E i \in DOMAIN set : set[i].header = t.header THEN set
    ELSE LET below == SelectSeq(set, LAMBDA e : TableLess(e, t))
             above == SelectSeq(set, LAMBDA e : ~TableLess(e, t))
         IN  below \o <<t>> \o above

\* TopologyTables::insert: BTreeSet::insert of a table
TablesInsert(set, t) ==
    IF \E i \in DOMAIN set : set[i] = t THEN set
    ELSE LET below == SelectSeq(set, LAMBDA e : TableLess(e, t))
             above == SelectSeq(set, LAMBDA e : ~TableLess(e, t))
         IN  below \o <<t>> \o above

\* FromIterator: iter.into_iter().collect::<BTreeSet<_>>()
RECURSIVE TablesFromIter(_)
TablesFromIter(iter) ==
    IF iter = <<>> THEN <<>>
    ELSE TablesInsert(TablesFromIter(SubSeq(iter, 1, Len(iter) - 1)), iter[Len(iter)])

\* ------------------------------------------------------------------------
\* The result set on its own: the tables of the entries collected in any order
\* ------------------------------------------------------------------------
\* The rows of a table: the skew calculator's rows over the domains z-a and z-b.
TableRows ==
    {RegionNew(V, {"z-a", "z-b"}, CHOOSE order \in Perms({"z-a", "z-b"}) : TRUE) :
        V \in {<<>>, <<"z-a">>, <<"z-a", "z-b">>}}

\* The tables the entries of a call may produce.
EntryTables ==
    {[header |-> h, topologies |-> r] :
        h \in {None, Some("apps/v1/deployment/web"), Some("batch/v1/job/batch")},
        r \in TableRows}

TablesInit ==
    /\ cmd = "none"
    /\ pc = "iter"
    /\ given \in SeqsUpTo(EntryTables, MaxTables)
    /\ result = <<>>
    /\ opts = NoOpts
    /\ labels_set = EmptyMap
    /\ cached = None
    /\ remaining = {}
    /\ fetched = <<>>
    /\ pods = <<>>
    /\ nodes = <<>>
    /\ tables = <<>>
    /\ requests = <<>>
    /\ driver_from = 0
    /\ error = None
    /\ SkewIdle

\* The tables collected in the order the entries completed.
Collect ==
    /\ cmd = "none"
    /\ pc = "iter"
    /\ tables' = TablesFromIter(given)
    /\ pc' = "collected"
    /\ UNCHANGED <<cmd, labels_set, cached, remaining, fetched, pods, nodes, requests,
                   driver_from, error, opts, given, result>>
    /\ UNCHANGED skewVars

\* The same tables collected in another completion order.
Recollect ==
    /\ cmd = "none"
    /\ pc = "collected"
    /\ \E again \in Rearrangements(given) : result' = TablesFromIter(again)
    /\ pc' = "recollected"
    /\ UNCHANGED <<cmd, labels_set, cached, remaining, fetched, pods, nodes, tables, requests,
                   driver_from, error, opts, given>>
    /\ UNCHANGED skewVars

\* tables.insert(table) of a table that was inserted before
Reinsert ==
    /\ cmd = "none"
    /\ pc = "recollected"
    /\ \E i \in DOMAIN given : result' = TablesInsert(tables, given[i])
    /\ pc' = "reinserted"
    /\ UNCHANGED <<cmd, labels_set, cached, remaining, fetched, pods, nodes, tables, requests,
                   driver_from, error, opts, given>>
    /\ UNCHANGED skewVars

TablesNext == Collect \/ Recollect \/ Reinsert

SpecTables == TablesInit /\ [][TablesNext]_vars

\* ------------------------------------------------------------------------
\* The commands: all() and pod()
\* ------------------------------------------------------------------------
\* The listings of all(), in the order it issues them.
ResourceKinds == <<"deployments", "statefulsets", "jobs", "daemonsets">>

\* format!("{}/{}/{}", api_version, kind, name) of the workload each listing may return
IdentityOf ==
    [deployments |-> "apps/v1/deployment/web", statefulsets |-> "apps/v1/statefulset/db",
     jobs |-> "batch/v1/job/batch", daemonsets |-> "apps/v1/daemonset/agent"]

\* A workload object: its match_labels, joined as key=value pairs, if it has any.
WorkloadObjects(kind) ==
    {[identity |-> IdentityOf[kind], match_labels |-> ml] : ml \in {None, Some("app=w")}}

\* The outcomes of resources::<K>(None, namespace, Some(&selectors), cli)
ResourceResponses(kind, room) ==
    {Err("ClusterQueryError"), Ok(<<>>)}
        \cup (IF room THEN {Ok(<<o>>) : o \in WorkloadObjects(kind)} ELSE {})

\* labels_set_by: identity -> selector, or the error of a workload without selector
LabelsSetBy(objs) ==
    IF \E i \in DOMAIN objs : ~IsSome(objs[i].match_labels)
    THEN Err("No found selector")
    ELSE Ok([n \in {objs[i].identity : i \in DOMAIN objs} |->
                Unwrap(objs[CHOOSE i \in DOMAIN objs : objs[i].identity = n].match_labels)])

\* opts.selectors(): the selector given on the command line
CliSelectors == {"", "app=w"}

\* A list request on a resource, with its label selector ("": none)
Request(api, labels) == [api |-> api, name |-> None, labels |-> labels]

\* A get request for the object of a name
GetRequest(api, n) == [api |-> api, name |-> Some(n), labels |-> ""]

\* The pods a list call of a command may return.
CommandPods ==
    {RunningOn(sp) : sp \in {Some([node_name |-> None]), BoundTo("n1"), BoundTo("n2"), BoundTo("n3")}}
        \cup {[status |-> Some([phase |-> Some("Pending")]), spec |-> BoundTo("n1")]}

\* The outcomes of the list call of pods_by.
PodResponses == {Err("Fail to get pods")} \cup {Ok(l) : l \in SeqsUpTo(CommandPods, MaxPods)}

\* The nodes of the cluster: n1 and n2; no node n3.
ClusterNodes(n) ==
    {[name |-> n, labels |-> ZoneLabel("z-a"), status |-> Some([conditions |-> Some(<<Condition("Ready", "True")>>)])],
     [name |-> n, labels |-> ZoneLabel("z-b"), status |-> Some([conditions |-> Some(<<Condition("Ready", "True")>>)])],
     [name |-> n, labels |-> EmptyMap, status |-> Some([conditions |-> Some(<<Condition("Ready", "True")>>)])],
     [name |-> n, labels |-> ZoneLabel("z-a"), status |-> Some([conditions |-> Some(<<Condition("Ready", "False")>>)])],
     [name |-> n, labels |-> ZoneLabel("z-b"), status |-> None]}

\* The outcomes of the node listing of CachedNodeApi::try_from, collected by name.
NodeListResponses ==
    {Err("ClusterQueryError")}
        \cup {Ok([n \in {"n1", "n2"} |-> IF n = "n1" THEN a ELSE b]) :
                 a \in ClusterNodes("n1"), b \in ClusterNodes("n2")}

\* opts.labels() of the node command: the label filter given on the command line
NodeFilters == {EmptyMap, ZoneLabel("z-a"), ZoneLabel("z-c")}

Init ==
    /\ cmd \in {"all", "pod", "node"}
    /\ IF cmd = "all"
       THEN pc = "deployments" /\ labels_set = EmptyMap
       ELSE IF cmd = "pod"
       THEN pc = "node_api" /\ \E sel \in CliSelectors : labels_set = [n \in {""} |-> sel]
       ELSE pc = "node_api" /\ labels_set = EmptyMap
    /\ IF cmd = "node"
       THEN \E f \in NodeFilters : opts = [name |-> None, selector |-> None, labels |-> f]
       ELSE opts = NoOpts
    /\ given = <<>>
    /\ result = <<>>
    /\ cached = None
    /\ remaining = {}
    /\ fetched = <<>>
    /\ pods = <<>>
    /\ nodes = <<>>
    /\ tables = <<>>
    /\ requests = <<>>
    /\ driver_from = (IF cmd = "all" THEN 0 ELSE 1)
    /\ error = None
    /\ SkewIdle

\* Variant: the failed step is tried again.
Fail_Retry(e) ==
    /\ pc' = pc
    /\ error' = error
    /\ fetched' = fetched
    /\ pods' = pods
    /\ nodes' = nodes
    /\ tables' = tables

\* Variant: the tables built so far survive the error.
Fail_KeepTables(e) ==
    /\ pc' = "error"
    /\ error' = Some(e)
    /\ fetched' = <<>>
    /\ pods' = <<>>
    /\ nodes' = <<>>
    /\ tables' = tables

\* The `?` of a failed step: the command returns the error, its locals are dropped.
Fail(e) ==
    /\ pc' = "error"
    /\ error' = Some(e)
    /\ fetched' = <<>>
    /\ pods' = <<>>
    /\ nodes' = <<>>
    /\ tables' = <<>>

\* Variant: the loop goes from the greatest key down.
CurrentName_Greatest == CHOOSE n \in remaining : \A m \in remaining : m = n \/ NameLess(m, n)

\* The entry the for loop is at: the least key of the BTreeMap not visited yet.
CurrentName == CHOOSE n \in remaining : \A m \in remaining : m = n \/ NameLess(n, m)

\* all(): resources::<K>(..).await? and labels_set.extend(labels_set_by(..)?), for
\* each of the four kinds in turn
ListResources ==
    /\ cmd = "all"
    /\ \E k \in DOMAIN ResourceKinds :
         /\ pc = ResourceKinds[k]
         /\ requests' = Append(requests, Request(pc, ""))
         /\ \E resp \in ResourceResponses(pc, Cardinality(DOMAIN labels_set) < MaxEntries) :
              LET r == IF resp.ok THEN LabelsSetBy(resp.val) ELSE resp
              IN  IF r.ok
                  THEN /\ labels_set' = Extend(labels_set, r.val)
                       /\ pc' = IF k < Len(ResourceKinds) THEN ResourceKinds[k + 1] ELSE "node_api"
                       /\ driver_from' =
                              IF k < Len(ResourceKinds) THEN driver_from ELSE Len(requests') + 1
                       /\ UNCHANGED <<fetched, pods, nodes, tables, error>>
                  ELSE /\ Fail(r.err)
                       /\ UNCHANGED <<labels_set, driver_from>>
    /\ UNCHANGED <<cmd, cached, remaining>>
    /\ UNCHANGED <<skewVars, helperVars>>

\* CachedNodeApi::try_from(cli).await?
TryFrom ==
    /\ pc = "node_api"
    /\ requests' = Append(requests, Request("nodes", ""))
    /\ \E resp \in NodeListResponses :
         IF resp.ok
         THEN /\ cached' = Some(resp.val)
              /\ remaining' = DOMAIN labels_set
              /\ pc' = IF cmd = "node" THEN "list" ELSE "loop"
              /\ UNCHANGED <<fetched, pods, nodes, tables, error>>
         ELSE /\ Fail(resp.err)
              /\ UNCHANGED <<cached, remaining>>
    /\ UNCHANGED <<cmd, labels_set, driver_from>>
    /\ UNCHANGED <<skewVars, helperVars>>

\* pods_by(&[&labels], namespace, cli).await? for the next entry
LoopPodsBy ==
    /\ pc = "loop"
    /\ remaining # {}
    /\ requests' = Append(requests, Request("pods", labels_set[CurrentName]))
    /\ \E resp \in PodResponses :
         LET r == PodsBy(<<resp>>)
         IN  IF r.ok
             THEN /\ fetched' = <<resp>>
                  /\ pods' = r.val
                  /\ pc' = "nodes_by"
                  /\ UNCHANGED <<nodes, tables, error>>
             ELSE Fail(r.err)
    /\ UNCHANGED <<cmd, labels_set, cached, remaining, driver_from>>
    /\ UNCHANGED <<skewVars, helperVars>>

\* nodes_by(&pods, &node_api).await?
LoopNodesBy ==
    /\ cmd # "none"
    /\ pc = "nodes_by"
    /\ nodes' = NodesBy(pods, Unwrap(cached))
    /\ \E lookups \in Rearrangements(NodeNames(pods)) :
           cached' = Some(CacheAfterLookups(Unwrap(cached), lookups))
    /\ requests' = requests \o LookupRequests(NodeNames(pods))
    /\ pc' = "spreading"
    /\ UNCHANGED <<cmd, labels_set, remaining, fetched, pods, tables, driver_from, error>>
    /\ UNCHANGED <<skewVars, helperVars>>

\* topology_table_find_by: an entry without node ends the call
NoMatch == cmd # "all" /\ nodes = <<>>

\* Variant: every caller asks for headers.
UseHeader_Always == TRUE

\* The use_header argument of topology_table_find_by: false in pod(),
\* name.is_none() in deployment()
UseHeader == IF cmd = "pod" THEN FALSE ELSE ~IsSome(opts.name)

\* topology_table_find_by: the header of an entry's table
TableHeader(use_header, name) == IF use_header THEN Some(name) ELSE None

\* Variant: the loop does not move on, the entry stays to be processed.
LoopInsert_Keep ==
    /\ pc = "spreading"
    /\ IF NoMatch
       THEN /\ Fail("No found objects")
            /\ UNCHANGED <<remaining, requests, cached>>
       ELSE LET topology_values == TopologyValues(TopologyKey, nodes)
                domains == Domains(Unwrap(cached), TopologyKey)
                header == IF cmd = "all" THEN Some(CurrentName)
                          ELSE TableHeader(UseHeader, CurrentName)
            IN  /\ \E order \in Perms(DOMAIN CountMap(topology_values, domains)) :
                       tables' = TablesInsert(tables,
                                     TopologyTableCreate(topology_values, domains, header, order))
                /\ requests' = requests \o LookupRequests(<<>>)
                /\ cached' = Some(CacheAfterScan(Unwrap(cached)))
                /\ remaining' = remaining
                /\ fetched' = <<>>
                /\ pods' = <<>>
                /\ nodes' = <<>>
                /\ pc' = "loop"
                /\ error' = error
    /\ UNCHANGED <<cmd, labels_set, driver_from>>
    /\ UNCHANGED <<skewVars, helperVars>>

\* spreading_status(..).await?, TopologyTable::create and tables.insert: the end of
\* the loop body
LoopInsert ==
    /\ pc = "spreading"
    /\ IF NoMatch
       THEN /\ Fail("No found objects")
            /\ UNCHANGED <<remaining, requests, cached>>
       ELSE LET topology_values == TopologyValues(TopologyKey, nodes)
                domains == Domains(Unwrap(cached), TopologyKey)
                header == IF cmd = "all" THEN Some(CurrentName)
                          ELSE TableHeader(UseHeader, CurrentName)
            IN  /\ \E order \in Perms(DOMAIN CountMap(topology_values, domains)) :
                       tables' = TablesInsert(tables,
                                     TopologyTableCreate(topology_values, domains, header, order))
                /\ requests' = requests \o LookupRequests(<<>>)
                /\ cached' = Some(CacheAfterScan(Unwrap(cached)))
                /\ remaining' = remaining \ {CurrentName}
                /\ fetched' = <<>>
                /\ pods' = <<>>
                /\ nodes' = <<>>
                /\ pc' = "loop"
                /\ error' = error
    /\ UNCHANGED <<cmd, labels_set, driver_from>>
    /\ UNCHANGED <<skewVars, helperVars>>

\* node(): node_api.list(&labels), only_node_running, the bail of an empty list,
\* spreading_status and the set of the one table
NodeTable ==
    /\ cmd = "node"
    /\ pc = "list"
    /\ \E iteration \in Perms(DOMAIN Unwrap(cached)) :
         LET listed == OnlyNodeRunning(CachedList(Unwrap(cached), opts.labels, iteration))
             topology_values == TopologyValues(TopologyKey, listed)
             domains == Domains(Unwrap(cached), TopologyKey)
         IN  IF listed = <<>>
             THEN /\ Fail("No found nodes")
                  /\ UNCHANGED <<cached, requests>>
             ELSE /\ \E order \in Perms(DOMAIN CountMap(topology_values, domains)) :
                        tables' = TablesInsert(<<>>,
                                      TopologyTableCreate(topology_values, domains, None, order))
                  /\ cached' = Some(CacheAfterScan(CacheAfterScan(Unwrap(cached))))
                  /\ requests' = requests \o LookupRequests(<<>>)
                  /\ nodes' = listed
                  /\ pc' = "done"
                  /\ UNCHANGED <<fetched, pods, error>>
    /\ UNCHANGED <<cmd, labels_set, remaining, driver_from>>
    /\ UNCHANGED <<skewVars, helperVars>>

\* Ok(tables)
Return ==
    /\ pc = "loop"
    /\ remaining = {}
    /\ pc' = "done"
    /\ UNCHANGED <<cmd, labels_set, cached, remaining, fetched, pods, nodes, tables, requests,
                   driver_from, error>>
    /\ UNCHANGED <<skewVars, helperVars>>

\* ------------------------------------------------------------------------
\* The queries that go through topology_table_find_by: pod() and deployment()
\* ------------------------------------------------------------------------
\* The deployments of the namespace: web, with or without match_labels, and api.
DeploymentObjects ==
    {[identity |-> "apps/v1/deployment/web", name |-> "web", match_labels |-> ml] :
        ml \in {None, Some("app=w")}}
        \cup {[identity |-> "apps/v1/deployment/api", name |-> "api", match_labels |-> Some("app=a")]}

\* The lists a listing of the deployments may return: no name twice.
DeploymentLists ==
    {l \in SeqsUpTo(DeploymentObjects, MaxEntries) :
        \A i, j \in DOMAIN l : l[i].name = l[j].name => i = j}

\* resources::<Deployment>(name, namespace, label, cli): the request it issues
ResourcesRequest(name, label) ==
    IF IsSome(name) /\ ~IsSome(label) THEN GetRequest("deployments", Unwrap(name))
    ELSE IF ~IsSome(name) /\ IsSome(label) THEN Request("deployments", Unwrap(label))
    ELSE Request("deployments", "")

\* resources::<Deployment>(name, namespace, label, cli): its outcomes
ResourcesResponses(name, label) ==
    {Err("ClusterQueryError")} \cup
        (IF IsSome(name) /\ ~IsSome(label)
         THEN {Ok(<<o>>) : o \in {d \in DeploymentObjects : d.name = Unwrap(name)}}
         ELSE {Ok(l) : l \in DeploymentLists})

\* The daemonsets of the namespace: agent, with or without match_labels, and log.
DaemonsetObjects ==
    {[identity |-> "apps/v1/daemonset/agent", name |-> "agent", match_labels |-> ml] :
        ml \in {None, Some("app=g")}}
        \cup {[identity |-> "apps/v1/daemonset/log", name |-> "log", match_labels |-> Some("app=l")]}

\* The jobs of the namespace: batch, with or without match_labels, and cron.
JobObjects ==
    {[identity |-> "batch/v1/job/batch", name |-> "batch", match_labels |-> ml] :
        ml \in {None, Some("app=b")}}
        \cup {[identity |-> "batch/v1/job/cron", name |-> "cron", match_labels |-> Some("app=c")]}

\* The workload queries: the resource each lists, the objects of the namespace, the
\* name that may be given, and the message of the bail of an empty list.
WorkloadQueries ==
    [deployment |-> [api |-> "deployments", objects |-> DeploymentObjects, name |-> "web",
                     bail |-> "No found deployments"],
     daemonset |-> [api |-> "daemonsets", objects |-> DaemonsetObjects, name |-> "agent",
                    bail |-> "No found daemonset"],
     job |-> [api |-> "jobs", objects |-> JobObjects, name |-> "batch",
              bail |-> "No found job"]]

\* resources::<K>(name, namespace, label, cli): the request it issues
ResourcesRequestOn(api, name, label) ==
    IF IsSome(name) /\ ~IsSome(label) THEN GetRequest(api, Unwrap(name))
    ELSE IF ~IsSome(name) /\ IsSome(label) THEN Request(api, Unwrap(label))
    ELSE Request(api, "")

\* resources::<K>(name, namespace, label, cli): its outcomes over the objects of
\* the namespace
ResourcesResponsesOver(objects, name, label) ==
    {Err("ClusterQueryError")} \cup
        (IF IsSome(name) /\ ~IsSome(label)
         THEN {Ok(<<o>>) : o \in {d \in objects : d.name = Unwrap(name)}}
         ELSE {Ok(l) : l \in {s \in SeqsUpTo(objects, MaxEntries) :
                                 \A i, j \in DOMAIN s : s[i].name = s[j].name => i = j}})

QueryInit ==
    /\ cmd \in {"pod", "deployment", "daemonset", "job"}
    /\ IF cmd = "pod"
       THEN /\ pc = "node_api"
            /\ \E sel \in CliSelectors : labels_set = [n \in {""} |-> sel]
            /\ opts = NoOpts
       ELSE /\ pc = "resources"
            /\ labels_set = EmptyMap
            /\ \E n \in {None, Some(WorkloadQueries[cmd].name)},
                  sel \in {None, Some("tier=front")} :
                   opts = [name |-> n, selector |-> sel, labels |-> EmptyMap]
    /\ given = <<>>
    /\ result = <<>>
    /\ cached = None
    /\ remaining = {}
    /\ fetched = <<>>
    /\ pods = <<>>
    /\ nodes = <<>>
    /\ tables = <<>>
    /\ requests = <<>>
    /\ driver_from = (IF cmd = "pod" THEN 1 ELSE 0)
    /\ error = None
    /\ SkewIdle

\* deployment(): resources::<Deployment>(..).await?, the bail of an empty list and
\* labels_set_by(&deployments)?
Deployment ==
    /\ cmd = "deployment"
    /\ pc = "resources"
    /\ requests' = Append(requests, ResourcesRequest(opts.name, opts.selector))
    /\ \E resp \in ResourcesResponses(opts.name, opts.selector) :
         LET r == IF ~resp.ok THEN resp
                  ELSE IF resp.val = <<>> THEN Err("No found deployments")
                  ELSE LabelsSetBy(resp.val)
         IN  IF r.ok
             THEN /\ labels_set' = r.val
                  /\ pc' = "node_api"
                  /\ driver_from' = Len(requests') + 1
                  /\ UNCHANGED <<fetched, pods, nodes, tables, error>>
             ELSE /\ Fail(r.err)
                  /\ UNCHANGED <<labels_set, driver_from>>
    /\ UNCHANGED <<cmd, cached, remaining>>
    /\ UNCHANGED <<skewVars, helperVars>>

\* Variant: an empty list is handed on to labels_set_by.
WorkloadQuery_NoBail(command) ==
    /\ cmd = command
    /\ pc = "resources"
    /\ requests' = Append(requests,
                       ResourcesRequestOn(WorkloadQueries[command].api, opts.name, opts.selector))
    /\ \E resp \in ResourcesResponsesOver(WorkloadQueries[command].objects,
                                          opts.name, opts.selector) :
         LET r == IF ~resp.ok THEN resp ELSE LabelsSetBy(resp.val)
         IN  IF r.ok
             THEN /\ labels_set' = r.val
                  /\ pc' = "node_api"
                  /\ driver_from' = Len(requests') + 1
                  /\ UNCHANGED <<fetched, pods, nodes, tables, error>>
             ELSE /\ Fail(r.err)
                  /\ UNCHANGED <<labels_set, driver_from>>
    /\ UNCHANGED <<cmd, cached, remaining>>
    /\ UNCHANGED <<skewVars, helperVars>>

\* daemonset() and job(), which have the shape of deployment():
\* resources::<K>(..).await?, the bail of an empty list and labels_set_by(..)?
WorkloadQuery(command) ==
    /\ cmd = command
    /\ pc = "resources"
    /\ requests' = Append(requests,
                       ResourcesRequestOn(WorkloadQueries[command].api, opts.name, opts.selector))
    /\ \E resp \in ResourcesResponsesOver(WorkloadQueries[command].objects,
                                          opts.name, opts.selector) :
         LET r == IF ~resp.ok THEN resp
                  ELSE IF resp.val = <<>> THEN Err(WorkloadQueries[command].bail)
                  ELSE LabelsSetBy(resp.val)
         IN  IF r.ok
             THEN /\ labels_set' = r.val
                  /\ pc' = "node_api"
                  /\ driver_from' = Len(requests') + 1
                  /\ UNCHANGED <<fetched, pods, nodes, tables, error>>
             ELSE /\ Fail(r.err)
                  /\ UNCHANGED <<labels_set, driver_from>>
    /\ UNCHANGED <<cmd, cached, remaining>>
    /\ UNCHANGED <<skewVars, helperVars>>

\* daemonset()
Daemonset == WorkloadQuery("daemonset")

\* job()
Job == WorkloadQuery("job")

QueryNext ==
    Deployment \/ Daemonset \/ Job \/ TryFrom \/ LoopPodsBy \/ LoopNodesBy \/ LoopInsert \/ Return

SpecQuery == QueryInit /\ [][QueryNext]_vars

\* ------------------------------------------------------------------------
\* main(): the arguments are parsed, the client is built, the command runs
\* ------------------------------------------------------------------------
\* The values given to -l, as strings of characters.
RawSelectors == {<<"k", "=", "v">>, <<"k", "v">>, <<"=">>, <<"k", "=", "v", "=">>}

\* Variant: a value without `=` is a key with an empty value.
ParseKeyVal_Lenient(s) ==
    LET found == {i \in DOMAIN s : s[i] = "="}
        pos == IF found = {} THEN Len(s) + 1 ELSE CHOOSE i \in found : \A j \in found : i <= j
    IN  Ok(<<SubSeq(s, 1, pos - 1), SubSeq(s, pos + 1, Len(s))>>)

\* parse_key_val: the Label of the text before and after the first `=` (the
\* message is the context of the source, without its backquotes)
ParseKeyVal(s) ==
    LET found == {i \in DOMAIN s : s[i] = "="}
        pos == CHOOSE i \in found : \A j \in found : i <= j
    IN  IF found = {}
        THEN Err("Not found = in key value pair(KEY=VALUE)")
        ELSE Ok(<<SubSeq(s, 1, pos - 1), SubSeq(s, pos + 1, Len(s))>>)

\* Display for Label: "{}={}"
LabelToString(label) == label[1] \o <<"=">> \o label[2]

\* LabelSelector::selector for Vec<Label>: the labels joined by ","
RECURSIVE Selector(_)
Selector(labels) ==
    IF labels = <<>> THEN <<>>
    ELSE IF Len(labels) = 1 THEN LabelToString(labels[1])
    ELSE LabelToString(Head(labels)) \o <<",">> \o Selector(Tail(labels))

\* Args::parse(): the value parser runs on every -l value in turn; the first error
\* ends the parse
ArgsParse(raw) ==
    LET parsed == [i \in DOMAIN raw |-> ParseKeyVal(raw[i])]
        failed == {i \in DOMAIN raw : ~parsed[i].ok}
    IN  IF failed # {}
        THEN Err(parsed[CHOOSE i \in failed : \A j \in failed : i <= j].err)
        ELSE Ok([i \in DOMAIN raw |-> parsed[i].val])

MainInit ==
    /\ cmd = "pod"
    /\ pc = "parse"
    /\ given \in SeqsUpTo(RawSelectors, MaxArgs)
    /\ result = <<>>
    /\ opts = NoOpts
    /\ labels_set = EmptyMap
    /\ cached = None
    /\ remaining = {}
    /\ fetched = <<>>
    /\ pods = <<>>
    /\ nodes = <<>>
    /\ tables = <<>>
    /\ requests = <<>>
    /\ driver_from = 0
    /\ error = None
    /\ SkewIdle

\* let args = Args::parse()
ParseArgs ==
    /\ pc = "parse"
    /\ LET r == ArgsParse(given)
       IN  IF r.ok
           THEN /\ opts' = [opts EXCEPT !.selector = Some(Selector(r.val))]
                /\ pc' = "kube_client"
                /\ UNCHANGED <<fetched, pods, nodes, tables, error>>
           ELSE /\ Fail(r.err)
                /\ opts' = opts
    /\ UNCHANGED <<cmd, labels_set, cached, remaining, requests, driver_from, given, result>>
    /\ UNCHANGED skewVars

\* kube_client(..).await? reads the kubeconfig; then pod(options, cli) builds its
\* labels_map
KubeClient ==
    /\ pc = "kube_client"
    /\ requests' = Append(requests, Request("kubeconfig", ""))
    /\ \E loaded \in BOOLEAN :
         IF loaded
         THEN /\ labels_set' = [n \in {""} |-> Unwrap(opts.selector)]
              /\ driver_from' = Len(requests') + 1
              /\ pc' = "node_api"
              /\ UNCHANGED <<fetched, pods, nodes, tables, error>>
         ELSE /\ Fail("KubeconfigError")
              /\ UNCHANGED <<labels_set, driver_from>>
    /\ UNCHANGED <<cmd, cached, remaining>>
    /\ UNCHANGED <<skewVars, helperVars>>

MainNext ==
    ParseArgs \/ KubeClient \/ TryFrom \/ LoopPodsBy \/ LoopNodesBy \/ LoopInsert \/ Return

SpecMain == MainInit /\ [][MainNext]_vars

Next ==
    ListResources \/ TryFrom \/ LoopPodsBy \/ LoopNodesBy \/ LoopInsert \/ NodeTable \/ Return

Spec == Init /\ [][Next]_vars

\* all() when every request is answered: the call is one task that goes on as soon
\* as the response it awaits is there, so a step that can be taken is taken.
LiveInit == Init /\ cmd = "all"

LiveNext == ListResources \/ TryFrom \/ LoopPodsBy \/ LoopNodesBy \/ LoopInsert \/ Return

SpecLive == LiveInit /\ [][LiveNext]_vars /\ WF_vars(LiveNext)

\* ------------------------------------------------------------------------
\* Properties of the fetcher and of the resolver
\* ------------------------------------------------------------------------
Running == Some([phase |-> Some("Running")])

\* The instances the list calls returned, in selector order.
FetchedInstances == Flatten([i \in DOMAIN fetched |-> fetched[i].val])

\* C9: the fetcher returns exactly the fetched instances whose phase is Running,
\* in order; the others are dropped without an error.
C9_OnlyRunningInstances ==
    (cmd = "none" /\ pc \in {"fetched", "error"}) =>
        IF \A i \in DOMAIN fetched : fetched[i].ok
        THEN /\ pc = "fetched"
             /\ error = None
             /\ pods = SelectSeq(FetchedInstances, LAMBDA p : p.status = Running)
        ELSE pc = "error"

\* A batch of two calls, each with a running instance, and an instance that is dropped.
C9_Witness ==
    /\ cmd = "none" /\ pc = "fetched"
    /\ Len(fetched) = 2
    /\ \A i \in DOMAIN fetched : \E j \in DOMAIN fetched[i].val : fetched[i].val[j].status = Running
    /\ \E j \in DOMAIN FetchedInstances : FetchedInstances[j].status = None
    /\ \E j \in DOMAIN FetchedInstances : FetchedInstances[j].status = Some([phase |-> None])
    /\ Len(pods) = 2

\* A node whose status conditions hold a condition Ready with status True.
HasReadyTrue(node) ==
    /\ IsSome(node.status)
    /\ IsSome(Unwrap(node.status).conditions)
    /\ \E i \in DOMAIN Unwrap(Unwrap(node.status).conditions) :
           Unwrap(Unwrap(node.status).conditions)[i] = Condition("Ready", "True")

\* C8: the resolver keeps a looked-up node only if its conditions hold Ready = True.
C8_OnlyReadyNodes ==
    (cmd = "none" /\ pc = "resolved") =>
        \A i \in DOMAIN nodes : HasReadyTrue(nodes[i])


\* ------------------------------------------------------------------------
\* Properties of the commands (checked under Spec)
\* ------------------------------------------------------------------------
\* The requests issued since the driver part of the command started.
DriverRequests ==
    IF driver_from = 0 THEN <<>> ELSE SubSeq(requests, driver_from, Len(requests))

\* C7: an entry whose resolved node list is empty makes the driver fail with the
\* no-match error; no table is built for it.
C7_EmptyEntryFails ==
    [][(pc = "spreading" /\ nodes = <<>>) =>
           (pc' = "error" /\ error' = Some("No found objects"))]_vars

\* C10: once the node directory is initialised, the driver has issued exactly one
\* node listing, its first request; every other request is a pod listing, at most
\* one per entry, so no lookup issues a request.
C10_OneNodeListing ==
    /\ Cardinality({i \in DOMAIN DriverRequests : DriverRequests[i].api = "nodes"}) <= 1
    /\ (driver_from > 0 /\ pc # "node_api") =>
           /\ Cardinality({i \in DOMAIN DriverRequests : DriverRequests[i].api = "nodes"}) = 1
           /\ DriverRequests[1].api = "nodes"
           /\ \A i \in DOMAIN DriverRequests : i > 1 => DriverRequests[i].api = "pods"
           /\ Len(DriverRequests) - 1 <= Cardinality(DOMAIN labels_set)

\* A completed call over two entries, one of them with two instances on a domain.
C10_Witness ==
    /\ cmd = "all" /\ pc = "done"
    /\ Cardinality(DOMAIN labels_set) = 2
    /\ Len(DriverRequests) = 3
    /\ \E i \in DOMAIN tables :
           \E j \in DOMAIN tables[i].topologies : tables[i].topologies[j].count >= 2

\* C11: once the node directory is constructed, no step of a command (lookups in
\* any order, domains, list, instance fetches, skew calculation) changes its snapshot.
C11_SnapshotFrozen ==
    [][IsSome(cached) => cached' = cached]_vars

\* A completed call that looked nodes up for two entries and built their tables,
\* with the snapshot still holding both nodes.
C11_Witness ==
    /\ cmd = "all" /\ pc = "done"
    /\ Len(tables) = 2
    /\ \A i \in DOMAIN tables : \E j \in DOMAIN tables[i].topologies :
           tables[i].topologies[j].count >= 1
    /\ IsSome(cached)
    /\ DOMAIN Unwrap(cached) = {"n1", "n2"}

\* ------------------------------------------------------------------------
\* More properties of the fetcher (checked under SpecFetch)
\* ------------------------------------------------------------------------
\* C12: when any list call of one fetcher call fails, the fetcher returns an error
\* and nothing else: no instance of the calls that succeeded is returned.
C12_FailFast ==
    (cmd = "none" /\ pc \in {"fetched", "error"}) =>
        /\ (\E i \in DOMAIN fetched : ~fetched[i].ok) =>
               (pc = "error" /\ error = Some("Fail to get pods") /\ pods = <<>>)
        /\ pc = "error" => (\E i \in DOMAIN fetched : ~fetched[i].ok)

\* A failed batch of two calls, the first of which returned a running instance.
C12_Witness ==
    /\ cmd = "none" /\ pc = "error"
    /\ Len(fetched) = 2
    /\ fetched[1].ok /\ ~fetched[2].ok
    /\ \E j \in DOMAIN fetched[1].val : fetched[1].val[j].status = Running
    /\ pods = <<>>

\* ------------------------------------------------------------------------
\* More properties of the resolver (checked under SpecResolve)
\* ------------------------------------------------------------------------
\* The instances that are bound to a node of the snapshot, in order.
BoundInstances ==
    SelectSeq(pods, LAMBDA p : /\ IsSome(p.spec)
                               /\ IsSome(Unwrap(p.spec).node_name)
                               /\ Unwrap(Unwrap(p.spec).node_name) \in DOMAIN Unwrap(cached))

\* The nodes of the bound instances, in order.
BoundNodes ==
    [i \in DOMAIN BoundInstances |->
        Unwrap(cached)[Unwrap(Unwrap(BoundInstances[i].spec).node_name)]]

\* C13: the resolver never fails: an instance without node name or bound to a node
\* that is not in the snapshot is dropped, and the resolver returns nodes of the
\* remaining instances only, among them every ready one, in order.
C13_LookupsNeverFail ==
    /\ (cmd = "none" /\ IsSome(cached)) => pc # "error"
    /\ (cmd = "none" /\ pc = "resolved") =>
           /\ error = None
           /\ \A i \in DOMAIN nodes : \E j \in DOMAIN BoundNodes : nodes[i] = BoundNodes[j]
           /\ Len(nodes) <= Len(BoundNodes)
           /\ SelectSeq(nodes, HasReadyTrue) = SelectSeq(BoundNodes, HasReadyTrue)

\* A batch of an instance bound to a node that is not in the snapshot and an
\* instance on a ready node: the latter's node is returned.
C13_Witness ==
    /\ cmd = "none" /\ pc = "resolved"
    /\ Len(pods) = 2
    /\ \E i \in DOMAIN pods : pods[i].spec = BoundTo("n3") \/ pods[i].spec = Some([node_name |-> None])
    /\ Len(BoundInstances) = 1
    /\ Len(nodes) = 1
    /\ HasReadyTrue(nodes[1])
    /\ error = None

\* ------------------------------------------------------------------------
\* More properties of the commands (checked under Spec)
\* ------------------------------------------------------------------------
\* C14: when the processing of an entry fails (a failed pod listing, or no match:
\* an empty node list), the driver returns that error and no result set: the tables
\* of the entries before it are discarded.
C14_FailureReturnsNoTables ==
    [][((pc = "spreading" /\ nodes = <<>>) \/ pc' = "error") =>
           (pc' = "error" /\ IsSome(error') /\ tables' = <<>>)]_vars

\* The part of C14 that does not depend on what counts as a failure: a call that
\* ends in an error returns no table, and a call that returns tables has no error.
C14_ErrorDiscardsTables ==
    /\ pc = "error" => (IsSome(error) /\ tables = <<>>)
    /\ (pc = "error" /\ remaining # {}) =>
           error \in {Some("Fail to get pods"), Some("No found objects")}
    /\ IsSome(error) => pc = "error"
    /\ pc = "done" => (error = None /\ remaining = {})

\* A call over two entries that failed at the second one, after the table of the
\* first one was inserted.
C14_Witness ==
    /\ cmd = "all" /\ pc = "error"
    /\ Cardinality(DOMAIN labels_set) = 2
    /\ Cardinality(remaining) = 1
    /\ error = Some("Fail to get pods")
    /\ tables = <<>>

\* ------------------------------------------------------------------------
\* Properties of the result set (checked under SpecTables)
\* ------------------------------------------------------------------------
\* C15: the result set is ordered by content: by header first, an absent header
\* before any present one, then by rows; and it is the same for every order in
\* which the tables of the entries arrive.
C15_OrderedByContent ==
    (cmd = "none" /\ pc \in {"collected", "recollected"}) =>
        /\ \A i, j \in DOMAIN tables : i < j =>
               /\ IsSome(tables[i].header) => IsSome(tables[j].header)
               /\ tables[i].header # tables[j].header =>
                      HeaderLess(tables[i].header, tables[j].header)
               /\ tables[i].header = tables[j].header =>
                      ZonesLess(tables[i].topologies, tables[j].topologies)
        /\ pc = "recollected" => result = tables

\* Three tables, with and without header, that arrived in descending order and
\* were collected again in another order.
C15_Witness ==
    /\ cmd = "none" /\ pc = "recollected"
    /\ Len(given) = 3 /\ Len(tables) = 3
    /\ TableLess(given[3], given[2]) /\ TableLess(given[2], given[1])
    /\ given[3].header = None /\ given[1].header # None
    /\ given[2].header = given[1].header
    /\ result = tables

\* C16: the result set is deduplicated by full equality: every table that arrived
\* is a member exactly once, two tables that differ in the header or in a row are
\* both members, and inserting a table equal to a member leaves the set unchanged.
C16_DedupByFullEquality ==
    (cmd = "none" /\ pc \in {"collected", "recollected", "reinserted"}) =>
        /\ Range(tables) = Range(given)
        /\ Len(tables) = Cardinality(Range(given))
        /\ pc = "reinserted" => result = tables

\* Two equal tables and a third one with the same header and other rows: two
\* members, and the set is unchanged by inserting one of them again.
C16_Witness ==
    /\ cmd = "none" /\ pc = "reinserted"
    /\ Len(given) = 3 /\ Len(tables) = 2
    /\ given[1] = given[3]
    /\ given[1].header = given[2].header /\ given[1].topologies # given[2].topologies
    /\ result = tables

\* ------------------------------------------------------------------------
\* Properties of the node directory (checked under SpecDirectory)
\* ------------------------------------------------------------------------
\* The label values in use.
LabelValues == {"z-a", "z-b", "p", "q"}

\* The snapshot nodes that carry the label key with the value v.
Carrying(key, v) ==
    {n \in DOMAIN Unwrap(cached) :
        key \in DOMAIN Unwrap(cached)[n].labels /\ Unwrap(cached)[n].labels[key] = v}

\* C17: domains(topologyKey) returns exactly the distinct values of the label over
\* the snapshot nodes that carry it, ready or not; the empty set when none does.
C17_DomainsAreLabelValues ==
    (cmd = "none" /\ pc = "answered" /\ given.op = "domains") =>
        /\ result \subseteq LabelValues
        /\ \A v \in LabelValues : v \in result <=> Carrying(given.key, v) # {}

\* Two values of the topology key, one of them carried by a node without status only.
C17_Witness ==
    /\ cmd = "none" /\ pc = "answered" /\ given.op = "domains"
    /\ given.key = TopologyKey
    /\ result = {"z-a", "z-b"}
    /\ \A n \in Carrying(TopologyKey, "z-b") : Unwrap(cached)[n].status = None

\* C18: list(labelFilter) returns exactly the snapshot nodes whose labels contain
\* every (key, value) of the filter, each once: all nodes for the empty filter,
\* and no node that matches a part of the filter only.
C18_ListMatchesEveryLabel ==
    (cmd = "none" /\ pc = "answered" /\ given.op = "list") =>
        /\ Range(result) =
               {Unwrap(cached)[n] : n \in {m \in DOMAIN Unwrap(cached) :
                   \A k \in DOMAIN given.labels : m \in Carrying(k, given.labels[k])}}
        /\ \A i, j \in DOMAIN result : result[i] = result[j] => i = j
        /\ given.labels = EmptyMap => Len(result) = Cardinality(DOMAIN Unwrap(cached))

\* A filter of two labels: one node carries both and is returned, the other
\* carries one of them with the right value and is not.
C18_Witness ==
    /\ cmd = "none" /\ pc = "answered" /\ given.op = "list"
    /\ Cardinality(DOMAIN given.labels) = 2
    /\ Cardinality(DOMAIN Unwrap(cached)) = 2
    /\ Len(result) = 1
    /\ \E n \in DOMAIN Unwrap(cached) :
           /\ Unwrap(cached)[n] # result[1]
           /\ n \in Carrying(TopologyKey, given.labels[TopologyKey])
           /\ n \notin Carrying("pool", given.labels["pool"])

Malformed(raw) == \A i \in DOMAIN raw : raw[i] # "="

\* C20: an invocation with a malformed -l value (no `=`) ends in the parse error
\* before any I/O: the kubeconfig is not read and no cluster request is issued.
C20_ParseErrorBeforeIO ==
    (\E i \in DOMAIN given : Malformed(given[i])) =>
        /\ requests = <<>>
        /\ cached = None
        /\ pc \in {"parse", "error"}
        /\ pc = "error" => error = Some("Not found = in key value pair(KEY=VALUE)")

\* A command line whose first -l value is well formed and whose second one is
\* not: the invocation has ended with the error and nothing was requested.
C20_Witness ==
    /\ pc = "error"
    /\ Len(given) = 2
    /\ ~Malformed(given[1]) /\ Malformed(given[2])
    /\ error = Some("Not found = in key value pair(KEY=VALUE)")
    /\ requests = <<>>

\* ------------------------------------------------------------------------
\* Requests and failures of the commands (checked under Spec)
\* ------------------------------------------------------------------------
\* The number of requests issued so far on a resource.
Issued(api) == Cardinality({i \in DOMAIN requests : requests[i].api = api})

\* C21: no cluster call is made again: every workload listing and the node listing
\* are issued at most once, and there is one pod listing per entry the loop has
\* reached. A failed node listing ends the call with its error: the directory is
\* not built and no pod listing follows.
C21_NoRetry ==
    /\ Issued("nodes") <= 1
    /\ \A k \in DOMAIN ResourceKinds : Issued(ResourceKinds[k]) <= 1
    /\ cached = None => Issued("pods") = 0
    /\ IsSome(cached) =>
           Issued("pods") = Cardinality(DOMAIN labels_set \ remaining)
                                + (IF pc \in {"nodes_by", "spreading"}
                                       \/ (pc = "error" /\ remaining # {})
                                   THEN 1 ELSE 0)
    /\ (Issued("nodes") = 1 /\ cached = None) =>
           /\ pc = "error"
           /\ error = Some("ClusterQueryError")
           /\ requests[Len(requests)].api = "nodes"

\* A call over two workloads whose node listing failed: the error is returned
\* and the node listing is the last request.
C21_Witness ==
    /\ cmd = "all" /\ pc = "error"
    /\ Cardinality(DOMAIN labels_set) = 2
    /\ Issued("nodes") = 1
    /\ cached = None
    /\ requests[Len(requests)].api = "nodes"
    /\ error = Some("ClusterQueryError")

\* ------------------------------------------------------------------------
\* Requests of the workload queries (checked under SpecQuery)
\* ------------------------------------------------------------------------
\* The k-th workload identity of labels_set in ascending order.
NthName(k) ==
    CHOOSE n \in DOMAIN labels_set :
        Cardinality({m \in DOMAIN labels_set : NameLess(m, n)}) = k - 1

C23_EmptyListingFails ==
    (cmd \in DOMAIN WorkloadQueries /\ pc # "resources" /\ labels_set = EmptyMap) =>
        /\ pc = "error"
        /\ error \in {Some("ClusterQueryError"), Some("No found selector"),
                       Some(WorkloadQueries[cmd].bail)}
        /\ Len(requests) = 1
        /\ requests[1].api = WorkloadQueries[cmd].api
        /\ cached = None

\* A daemonset query by selector whose listing returned no daemonset.
C23_Witness ==
    /\ cmd = "daemonset" /\ pc = "error"
    /\ error = Some("No found daemonset")
    /\ requests = <<Request("daemonsets", "tier=front")>>
    /\ cached = None

\* The identities of the workloads of the kind queried that have the name given.
NamedIdentities ==
    {o.identity : o \in {w \in WorkloadQueries[cmd].objects : w.name = Unwrap(opts.name)}}

\* C24: a workload query with a name, with or without a label selector, processes
\* the workload of that name only: one named selector, one pod listing, at most
\* one table.
C24_NamedQueryOneWorkload ==
    (cmd \in DOMAIN WorkloadQueries /\ IsSome(opts.name)) =>
        /\ DOMAIN labels_set \subseteq NamedIdentities
        /\ Issued("pods") <= 1
        /\ Len(tables) <= 1

\* ------------------------------------------------------------------------
\* Tables and instances (checked under Spec)
\* ------------------------------------------------------------------------
\* The sum of the counts of the rows.
RECURSIVE SumCounts(_)
SumCounts(rows) == IF rows = <<>> THEN 0 ELSE Head(rows).count + SumCounts(Tail(rows))

\* An instance that counts: it is running and bound to a node of the snapshot that
\* passes the node filter (only_node_running) and carries the topology label.
Counted(pod) ==
    /\ pod.status = Running
    /\ IsSome(pod.spec)
    /\ IsSome(Unwrap(pod.spec).node_name)
    /\ Unwrap(Unwrap(pod.spec).node_name) \in DOMAIN Unwrap(cached)
    /\ LET node == Unwrap(cached)[Unwrap(Unwrap(pod.spec).node_name)]
       IN  NodeIsRunning(node) /\ TopologyKey \in DOMAIN node.labels

\* The table of the entry the loop is at, once inserted into the set new_tables.
TableOfEntry(new_tables) ==
    CHOOSE t \in Range(new_tables) :
        t.header = (IF cmd = "all" THEN Some(CurrentName) ELSE None)

\* C25: in the table built for an entry, the row counts add up to the number of
\* listed instances that count, each instance for itself: two of them on one
\* node add 2 to the domain of that node.
C25_CountsSumToInstances ==
    [][(pc = "spreading" /\ pc' = "loop") =>
           SumCounts(TableOfEntry(tables').topologies) =
               Cardinality({i \in DOMAIN FetchedInstances : Counted(FetchedInstances[i])})]_vars

\* A pod query that returned a table with 2 instances in z-a, while one node only
\* of the snapshot is in z-a.
C25_Witness ==
    /\ cmd = "pod" /\ pc = "done"
    /\ Len(tables) = 1
    /\ \E j \in DOMAIN tables[1].topologies :
           tables[1].topologies[j].count = 2 /\ tables[1].topologies[j].name = "z-a"
    /\ Cardinality({n \in DOMAIN Unwrap(cached) :
                       TopologyKey \in DOMAIN Unwrap(cached)[n].labels
                           /\ Unwrap(cached)[n].labels[TopologyKey] = "z-a"}) = 1

\* The values of the topology label over the nodes of the snapshot.
SnapshotValues ==
    {v \in Keys : \E n \in DOMAIN Unwrap(cached) :
        /\ TopologyKey \in DOMAIN Unwrap(cached)[n].labels
        /\ Unwrap(cached)[n].labels[TopologyKey] = v}

\* C26: the nodes whose values are handed to the skew calculator are nodes of the
\* snapshot the domain set is computed from: every observed value is a domain, and
\* the row keys of every table are exactly the domains, without extension row.
C26_RowKeysAreDomains ==
    /\ pc = "spreading" =>
           \A i \in DOMAIN nodes :
               TopologyKey \in DOMAIN nodes[i].labels =>
                   nodes[i].labels[TopologyKey] \in SnapshotValues
    /\ \A i \in DOMAIN tables :
           {tables[i].topologies[j].name : j \in DOMAIN tables[i].topologies} = SnapshotValues

\* A node query over a snapshot with the domains z-a and z-b: a table with
\* these two rows.
C26_Witness ==
    /\ cmd = "node" /\ pc = "done"
    /\ Len(tables) = 1
    /\ SnapshotValues = {"z-a", "z-b"}
    /\ Len(tables[1].topologies) = 2
    /\ \E j \in DOMAIN tables[1].topologies : tables[1].topologies[j].count = 0

\* The counts and the skews of the rows returned by the skew calculator.
RowCounts == {zones[i].count : i \in DOMAIN zones}
RowSkews == {zones[i].skew : i \in DOMAIN zones}

\* C27: when the skew calculator returns at least one row, some row has skew 0
\* and its count is the smallest count, and the largest skew is the largest
\* count minus the smallest count.
C27_ZeroSkewRowAndSpread ==
    (phase # "input" /\ zones # <<>>) =>
        /\ \E i \in DOMAIN zones :
               /\ zones[i].skew = 0
               /\ \A j \in DOMAIN zones : zones[i].count <= zones[j].count
        /\ \E hi \in RowCounts : \E lo \in RowCounts : \E sk \in RowSkews :
               /\ \A c \in RowCounts : lo <= c /\ c <= hi
               /\ \A x \in RowSkews : x <= sk
               /\ sk = hi - lo

\* A run whose smallest count is positive and whose counts differ by two.
C27_Witness ==
    /\ phase = "computed"
    /\ \E i, j \in DOMAIN zones :
           /\ zones[i].count = 1 /\ zones[i].skew = 0
           /\ zones[j].count = 3 /\ zones[j].skew = 2
    /\ \A i \in DOMAIN zones : zones[i].count >= 1

\* ------------------------------------------------------------------------
\* The node query (checked under Spec)
\* ------------------------------------------------------------------------
\* C28: a node query that returns, returns a single header-absent table with at
\* least one row.
C28_NodeQueryHasRows ==
    (cmd = "node" /\ pc = "done") =>
        /\ Len(tables) = 1
        /\ tables[1].header = None
        /\ Len(tables[1].topologies) >= 1

\* What holds of the node query: it returns a single header-absent table, which
\* has a row as soon as a node of the snapshot carries the topology label.
C28_RowsWhenLabelled ==
    (cmd = "node" /\ pc = "done") =>
        /\ Len(tables) = 1
        /\ tables[1].header = None
        /\ SnapshotValues # {} => Len(tables[1].topologies) >= 1

\* A node query over ready nodes none of which carries the topology label: it
\* returns a table without rows.
C28_EmptyTable ==
    /\ cmd = "node" /\ pc = "done"
    /\ nodes # <<>>
    /\ SnapshotValues = {}
    /\ Len(tables) = 1 /\ tables[1].topologies = <<>>

\* ------------------------------------------------------------------------
\* The batch of list calls (checked under SpecJoin)
\* ------------------------------------------------------------------------
\* The selectors whose list call fails.
FailingCalls == {i \in DOMAIN given : ~given[i].ok}

\* The instances of all the calls, in selector order.
GivenInstances ==
    Flatten([i \in DOMAIN given |-> IF given[i].ok THEN given[i].val ELSE <<>>])

\* C29: the fetcher returns only after every list call has completed, and what it
\* returns is fixed by the answers in selector order, whatever the order of
\* completion: the running instances merged in selector order, or the error of
\* the failing selector of the lowest index.
C29_JoinInSelectorOrder ==
    (cmd = "join" /\ pc \in {"fetched", "error"}) =>
        /\ remaining = {}
        /\ {result[k] : k \in DOMAIN result} = DOMAIN given
        /\ IF FailingCalls = {}
           THEN /\ pc = "fetched"
                /\ error = None
                /\ pods = SelectSeq(GivenInstances, LAMBDA p : p.status = Running)
           ELSE /\ pc = "error"
                /\ pods = <<>>
                /\ \E i \in FailingCalls :
                       /\ \A j \in FailingCalls : i <= j
                       /\ error = Some(given[i].err)

\* Two calls fail with different errors, the second one first: the error of the
\* first selector is returned.
C29_Witness ==
    /\ cmd = "join" /\ pc = "error"
    /\ Len(given) = 2
    /\ given[1] = Err(ListError("Timeout"))
    /\ given[2] = Err(ListError("Forbidden"))
    /\ result = <<2, 1>>
    /\ error = Some(ListError("Timeout"))

\* ------------------------------------------------------------------------
\* Termination of the driver (checked under SpecLive)
\* ------------------------------------------------------------------------
\* The requests a call may issue: the workload listings, one node listing and one
\* pod listing per named selector.
RequestBudget == Len(ResourceKinds) + 1 + Cardinality(DOMAIN labels_set)

\* C30: when every request is answered, a call ends, with its tables or with an
\* error, and it never issues more requests than the workload listings, the node
\* listing and one pod listing per named selector.
C30_Terminates ==
    /\ <>(pc \in {"done", "error"} /\ (pc = "done" <=> error = None))
    /\ [](Len(requests) <= RequestBudget)

\* A call of the driver over two workloads that has ended with two tables after
\* seven requests.
C30_Witness ==
    /\ cmd = "all" /\ pc = "done"
    /\ Cardinality(DOMAIN labels_set) = 2
    /\ Len(tables) = 2
    /\ Len(requests) = RequestBudget

====
